---- MODULE Spec2Model ----
(***************************************************************************)
(* A model of dll::dbn (include/dll/dbn.inl): the training orchestrator    *)
(* (pretrain in full and in batch mode, train_with_labels) and inference   *)
(* (predict_labels, activation_probabilities, predict).                    *)
(*                                                                         *)
(* Conventions.  Layer indices are those of the code (0 .. layers-1).      *)
(* Buffers (std::vector) are TLA+ sequences: code index i is position i+1. *)
(* A weight is a natural number of tenths: 10 is 1.0, 1 is 0.1, 0 is 0.0.  *)
(* Two networks share one layer stack and differ only in the save_memory   *)
(* trait of their descriptor: "full" (false) and "batch" (true).           *)
(* The layers' own code (train, activation, conversion, allocation) is not *)
(* part of dbn.inl; it is modelled by fixed deterministic functions: the   *)
(* parameters of a layer are the sequence of training inputs it was given. *)
(***************************************************************************)
EXTENDS Naturals, Sequences, FiniteSets

\* ------------------------------------------------------------------ bounds
MaxLayers == 3
MaxSamples == 3
MaxEpochs == 2
MaxBatchSize == 2
MaxLabels == 3
MaxBigBatch == 4
MaxTrained == 3
MaxStored == 2

\* ------------------------------------------------------------- layer types
\* layer_traits<Layer>: the static facts the orchestrator reads of a layer.
rbm(i, o, pl) ==
    [input_size |-> i, output_size |-> o, is_pooling_layer |-> FALSE,
     pretrain_last |-> pl, batch_size |-> 1]

mp_layer(i, o) ==
    [input_size |-> i, output_size |-> o, is_pooling_layer |-> TRUE,
     pretrain_last |-> TRUE, batch_size |-> 1]

LayerTypes ==
    { rbm(2, 2, TRUE), rbm(2, 1, TRUE), rbm(4, 2, TRUE), rbm(2, 2, FALSE),
      mp_layer(2, 2) }

Nets == {"full", "batch"}

\* dbn_traits<this_type>::save_memory()
save_memory(net) == net = "batch"

VARIABLES
    layers_t,         \* desc::layers: the layer types, index 0 first
    BatchSize,        \* desc::BatchSize
    tuples,           \* per network, per layer: the layer's parameters
    pc,               \* position of the control thread
    call,             \* the running (or last) call and its arguments
    I,                \* the template parameter I of the running recursion
    input,            \* the buffer handed to layer I (full mode, labels)
    epoch,            \* batch mode: the epoch counter
    it,               \* batch mode: samples consumed in this epoch
    big_batch,        \* batch mode: the big_batch counter
    activated_input,  \* batch mode, I > 0: the activated_input buffer
    context,          \* batch mode: the rbm_training_context of the epoch
    log,              \* per network: watcher and trainer calls of its call
    out,              \* the value the last call returned
    fields,           \* per network: learning_rate .. momentum
    svm_model,        \* per network: the learned model
    problem,          \* per network: the problem the classifier was given
    svm_loaded,       \* per network: a model has been trained or loaded
    os                \* the stream store writes and load reads

vars ==
    <<layers_t, BatchSize, tuples, pc, call, I, input, epoch, it, big_batch,
      activated_input, context, log, out, fields, svm_model, problem,
      svm_loaded, os>>

\* static constexpr const std::size_t layers = desc::layers::layers
layers == Len(layers_t)

\* rbm_type<N>: code index N is position N + 1.
rbm_type(N) == layers_t[N + 1]

\* ---------------------------------------------------------------- helpers
RECURSIVE Sum(_)
Sum(v) == IF v = <<>> THEN 0 ELSE Head(v) + Sum(Tail(v))

RECURSIVE SumAll(_)
SumAll(h) == IF h = <<>> THEN 0 ELSE 1 + Sum(Head(h)) + SumAll(Tail(h))

RECURSIVE Repeat(_, _)
Repeat(s, n) == IF n = 0 THEN <<>> ELSE s \o Repeat(s, n - 1)

Zeros(w) == [j \in 1..w |-> 0]

\* Layer::convert_input / convert_sample of layer 0: a raw sample becomes a
\* vector of layer 0's input width.
convert_sample(s) == [j \in 1..rbm_type(0).input_size |-> IF j = 1 THEN s ELSE 0]

convert_input(range) == [k \in 1..Len(range) |-> convert_sample(range[k])]

\* Layer::prepare_output(n): n value-initialised output vectors.
prepare_output(N, n) == [k \in 1..n |-> Zeros(rbm_type(N).output_size)]

\* Layer::activate_one(v, a): the activation of v under the parameters h.
activate_one(N, h, v) ==
    [j \in 1..rbm_type(N).output_size |->
        ((SumAll(h) + Sum(v)) * j + (SumAll(h) + Sum(v)) \div 2) % 4]

\* The orders in which the workers of the pool may complete n elements.
Orders(n) == {o \in [1..n -> 1..n] : \A a, b \in 1..n : o[a] = o[b] => a = b}

\* A plausible slip: the k-th result to complete goes to slot k.
slot_as_completed(k, i) == k

\* Lines 264-266 and 399-401: the functor of element i writes next_a[i].
slot(k, i) == i

\* maybe_parallel_foreach_i(pool, first, last, fn): fn(v, i) has run for every
\* element when the call returns; the workers complete the elements in order.
\* result[i] is what fn computes for element i, next_a the buffer it writes.
RECURSIVE maybe_parallel_foreach_i(_, _, _)
maybe_parallel_foreach_i(order, next_a, result) ==
    IF order = <<>>
    THEN next_a
    ELSE LET i == Head(order)
             k == Len(result) - Len(order) + 1
         IN maybe_parallel_foreach_i(
               Tail(order), [next_a EXCEPT ![slot(k, i)] = result[i]], result)

\* Layer::train(first, last, max_epochs): every epoch presents the inputs.
train(h, inp, E) == h \o Repeat(inp, E)

\* rbm_trainer::train_sub(first, last, ...): one more slice of inputs.
train_sub(h, inp) == h \o inp

\* ------------------------------------------------------------ the watcher
\* One entry per call made to the watcher or to a layer's trainer.
Ev(e, N, a) == [ev |-> e, I |-> N, arg |-> a]

Append2(s, a, b) == Append(Append(s, a), b)

NoOut == [op |-> "none", result |-> 0, vec |-> <<>>, trace |-> <<>>]

\* Lines 97-105: the member initialisers, in thousandths (weight_cost in
\* ten-thousandths).
default_fields ==
    [learning_rate |-> 770, initial_momentum |-> 500, final_momentum |-> 900,
     final_momentum_epoch |-> 6, weight_cost |-> 2, momentum |-> 0]

\* svm::problem and svm::model as default-constructed (lines 110-112).
NoProblem == [labels |-> <<>>, samples |-> <<>>]

NoModel == [trained |-> FALSE, problem |-> NoProblem]

\* No stream has been written.
NoStream == [by |-> "full", data |-> <<>>, written |-> FALSE]

NoCall ==
    [op |-> "none", net |-> "full", data |-> <<>>, max_epochs |-> 0,
     random_access |-> TRUE, lit |-> <<>>, labels |-> 0]

\* ----------------------------------------------------------------- policy
\* train_next<N>::value
train_next(N) ==
    IF N < layers - 1 THEN TRUE
    ELSE IF N = layers - 1 THEN rbm_type(N).pretrain_last
    ELSE FALSE

\* batch_layer_ignore<N>::value
batch_layer_ignore(N) ==
    IF N < layers
    THEN rbm_type(N).is_pooling_layer \/ ~rbm_type(N).pretrain_last
    ELSE FALSE

\* The overloads of pretrain_layer_batch<N> whose enable_if condition holds.
pretrain_layer_batch_overloads(N) ==
    {o \in {"layer0", "ignore", "train", "stop"} :
        \/ o = "layer0" /\ N = 0
        \/ o = "ignore" /\ batch_layer_ignore(N)
        \/ o = "train" /\ N > 0 /\ N < layers /\ ~batch_layer_ignore(N)
        \/ o = "stop" /\ N = layers /\ ~batch_layer_ignore(N)}

\* pretrain_layer_batch<0> instantiates pretrain_layer_batch<1> .. <layers>;
\* the call compiles only if each resolves to one overload.
batch_well_formed ==
    \A N \in 0..layers : Cardinality(pretrain_layer_batch_overloads(N)) = 1

\* fast_distance(first, last)
fast_distance(random_access, range) == IF random_access THEN Len(range) ELSE 0

\* desc::BatchSize * get_batch_size(rbm)
big_batch_size(N) == BatchSize * rbm_type(N).batch_size

\* A plausible slip: every layer is given the converted sample.
RECURSIVE activation_probabilities_of_input(_, _, _, _)
activation_probabilities_of_input(t, N, S, v) ==
    IF N < S - 1
    THEN activation_probabilities_of_input(t, N + 1, S, v)
    ELSE activate_one(N, t[N], v)

\* activation_probabilities<N, S>(input, result), the value left in result
RECURSIVE activation_probabilities(_, _, _, _)
activation_probabilities(t, N, S, v) ==
    IF N < S - 1
    THEN activation_probabilities(t, N + 1, S, activate_one(N, t[N], v))
    ELSE activate_one(N, t[N], v)

\* ------------------------------------------------------------------- Init
Stacks == UNION {[1..n -> LayerTypes] : n \in 1..MaxLayers}

Ranges == {[k \in 1..n |-> k] : n \in 0..MaxSamples}

Init ==
    /\ layers_t \in Stacks
    /\ BatchSize \in 0..MaxBatchSize
    /\ tuples = [net \in Nets |-> [N \in 0..(Len(layers_t) - 1) |-> <<>>]]
    /\ pc = "idle"
    /\ call = NoCall
    /\ I = 0
    /\ input = <<>>
    /\ epoch = 0
    /\ it = 0
    /\ big_batch = 0
    /\ activated_input = <<>>
    /\ context = 0
    /\ log = [net \in Nets |-> <<>>]
    /\ out = NoOut
    /\ fields = [net \in Nets |-> default_fields]
    /\ svm_model = [net \in Nets |-> NoModel]
    /\ problem = [net \in Nets |-> NoProblem]
    /\ svm_loaded = [net \in Nets |-> FALSE]
    /\ os = NoStream

batch_vars == <<epoch, it, big_batch, activated_input, context>>
desc_vars == <<layers_t, BatchSize>>
svm_vars == <<svm_model, problem, svm_loaded>>

\* ------------------------------------------------------------ the caller
\* A training call is made on the networks as constructed.
fresh == pc = "idle" /\ out = NoOut

\* After pretrain has returned on one network, the caller may repeat the call
\* with the same arguments on the other network.
twin_call(net, first_last, E, ra) ==
    /\ pc = "returned"
    /\ out.op = "pretrain"
    /\ call.op = "pretrain"
    /\ net # call.net
    /\ log[net] = <<>>
    /\ first_last = call.data
    /\ E = call.max_epochs
    /\ ra = call.random_access

\* An inference call is made on a network as constructed, or on the network
\* whose training call has just returned.
at_rest(net) ==
    \/ fresh
    \/ pc = "returned" /\ net = call.net

\* ------------------------------------------------- pretrain, lines 438-456
pretrain(net, first_last, E, ra) ==
    /\ \/ fresh
       \/ twin_call(net, first_last, E, ra)
    /\ save_memory(net) => batch_well_formed
    /\ call' = [op |-> "pretrain", net |-> net, data |-> first_last,
                max_epochs |-> E, random_access |-> ra, lit |-> <<>>,
                labels |-> 0]
    /\ log' = [log EXCEPT ![net] = <<Ev("pretraining_begin", 0, E)>>]
    /\ out' = NoOut
    /\ I' = 0
    /\ IF save_memory(net)
       THEN /\ pc' = "pretrain_layer_batch"
            /\ input' = <<>>
       ELSE /\ pc' = "pretrain_layer"
            /\ input' = convert_input(first_last)
    /\ UNCHANGED <<fields, svm_vars, os>>
    /\ UNCHANGED <<desc_vars, tuples, batch_vars>>

pretraining_end ==
    /\ pc = "pretraining_end"
    /\ log' = [log EXCEPT ![call.net] =
                  Append(@, Ev("pretraining_end", 0, 0))]
    /\ pc' = "returned"
    /\ out' = [NoOut EXCEPT !.op = call.op]
    /\ UNCHANGED <<fields, svm_vars, os>>
    /\ UNCHANGED <<desc_vars, tuples, call, I, input, batch_vars>>

\* ------------------------------------------- pretrain_layer, lines 247-274
\* A plausible slip: the watcher is told after the layer was trained.
train_then_watch(N, n, inp) == <<Ev("train", N, inp), Ev("pretrain_layer", N, n)>>

\* Lines 254-259: the watcher's pretrain_layer, then the layer's train.
watch_then_train(N, n, inp) == <<Ev("pretrain_layer", N, n), Ev("train", N, inp)>>

pretrain_layer ==
    /\ pc = "pretrain_layer"
    /\ I < layers
    /\ LET net == call.net
           ra == IF I = 0 THEN call.random_access ELSE TRUE
           h == train(tuples[net][I], input, call.max_epochs)
       IN /\ log' = [log EXCEPT ![net] =
                        @ \o watch_then_train(I, fast_distance(ra, input), input)]
          /\ tuples' = [tuples EXCEPT ![net][I] = h]
          /\ IF train_next(I + 1)
             THEN /\ \E order \in Orders(Len(input)) :
                        input' = maybe_parallel_foreach_i(
                                    order, prepare_output(I, Len(input)),
                                    [k \in 1..Len(input) |->
                                        activate_one(I, h, input[k])])
                  /\ I' = I + 1
                  /\ pc' = "pretrain_layer"
             ELSE /\ pc' = "pretraining_end"
                  /\ UNCHANGED <<input, I>>
    /\ UNCHANGED <<fields, svm_vars, os>>
    /\ UNCHANGED <<desc_vars, call, batch_vars, out>>

\* ------------------------------------- pretrain_layer_batch, lines 284-423
\* The head of the two training overloads (I == 0, and I > 0 not ignored).
pretrain_layer_batch_begin ==
    /\ pc = "pretrain_layer_batch"
    /\ pretrain_layer_batch_overloads(I) \in {{"layer0"}, {"train"}}
    /\ log' = [log EXCEPT ![call.net] =
                  Append2(@, Ev("pretrain_layer", I, 0), Ev("init_training", I, 0))]
    /\ activated_input' =
          IF I > 0 THEN prepare_output(I - 1, big_batch_size(I)) ELSE <<>>
    /\ epoch' = 0
    /\ pc' = "epoch_loop"
    /\ UNCHANGED <<fields, svm_vars, os>>
    /\ UNCHANGED <<desc_vars, tuples, call, I, input, it, big_batch, context,
                   out>>

\* A plausible slip: the context is created once, outside the epoch loop.
init_epoch_one_context ==
    /\ pc = "epoch_loop"
    /\ epoch < call.max_epochs
    /\ big_batch' = 0
    /\ context' = I + 1
    /\ log' = [log EXCEPT ![call.net] =
                  Append(@, Ev("init_epoch", I, [epoch |-> epoch, context |-> I + 1]))]
    /\ it' = 0
    /\ pc' = "batch_loop"
    /\ UNCHANGED <<fields, svm_vars, os>>
    /\ UNCHANGED <<desc_vars, tuples, call, I, input, epoch, activated_input,
                   out>>

\* for(epoch ...): the loop body up to the batch loop.
init_epoch ==
    /\ pc = "epoch_loop"
    /\ epoch < call.max_epochs
    /\ big_batch' = 0
    /\ context' = context + 1
    /\ log' = [log EXCEPT ![call.net] =
                  Append(@, Ev("init_epoch", I, [epoch |-> epoch, context |-> context + 1]))]
    /\ it' = 0
    /\ pc' = "batch_loop"
    /\ UNCHANGED <<fields, svm_vars, os>>
    /\ UNCHANGED <<desc_vars, tuples, call, I, input, epoch, activated_input,
                   out>>

\* A plausible slip: the inner loop runs while i <= big_batch_size.
batch_end_inclusive(batch_start, N) ==
    IF batch_start + big_batch_size(N) + 1 < Len(call.data)
    THEN batch_start + big_batch_size(N) + 1
    ELSE Len(call.data)

\* The samples [batch_start, it) the inner while loop steps over.
batch_end(batch_start, N) ==
    IF batch_start + big_batch_size(N) < Len(call.data)
    THEN batch_start + big_batch_size(N)
    ELSE Len(call.data)

\* A plausible slip: the slice is sent through the layers below as they were
\* constructed, not as their training left them.
batch_input_untrained(t, N, slice, order) ==
    IF N = 0
    THEN convert_input(slice)
    ELSE maybe_parallel_foreach_i(
            order, activated_input,
            [k \in 1..Len(slice) |->
                activation_probabilities([n \in DOMAIN t |-> <<>>], 0, N,
                                         convert_input(slice)[k])])

\* The buffer given to train_sub for the slice [batch_start, it).
batch_input(t, N, slice, order) ==
    IF N = 0
    THEN convert_input(slice)
    ELSE maybe_parallel_foreach_i(
            order, activated_input,
            [k \in 1..Len(slice) |->
                activation_probabilities(t, 0, N, convert_input(slice)[k])])

\* The log keeps one entry for a call repeated with the same arguments.
record(L, e) == IF L # <<>> /\ L[Len(L)] = e THEN L ELSE Append(L, e)

\* while(it != end): one big batch.  The counter big_batch is an unsigned
\* integer: it wraps, here after MaxBigBatch.
train_big_batch ==
    /\ pc = "batch_loop"
    /\ it # Len(call.data)
    /\ LET net == call.net
           nxt == batch_end(it, I)
           slice == SubSeq(call.data, it + 1, nxt)
       IN \E order \in (IF I > 0 THEN Orders(Len(slice)) ELSE {<<>>}) :
             LET buf == batch_input(tuples[net], I, slice, order)
             IN /\ it' = nxt
                /\ activated_input' = IF I > 0 THEN buf ELSE activated_input
                /\ tuples' = [tuples EXCEPT ![net][I] = train_sub(@, buf)]
                /\ log' = [log EXCEPT ![net] =
                              record(@, Ev("train_sub", I,
                                           [context |-> context, first |-> it,
                                            last |-> nxt, input |-> buf]))]
    /\ big_batch' = (big_batch + 1) % (MaxBigBatch + 1)
    /\ UNCHANGED <<fields, svm_vars, os>>
    /\ UNCHANGED <<desc_vars, pc, call, I, input, epoch, context, out>>

finalize_epoch ==
    /\ pc = "batch_loop"
    /\ it = Len(call.data)
    /\ log' = [log EXCEPT ![call.net] =
                  Append(@, Ev("finalize_epoch", I, [epoch |-> epoch, context |-> context]))]
    /\ epoch' = epoch + 1
    /\ pc' = "epoch_loop"
    /\ UNCHANGED <<fields, svm_vars, os>>
    /\ UNCHANGED <<desc_vars, tuples, call, I, input, it, big_batch,
                   activated_input, context, out>>

finalize_training ==
    /\ pc = "epoch_loop"
    /\ epoch >= call.max_epochs
    /\ log' = [log EXCEPT ![call.net] = Append(@, Ev("finalize_training", I, 0))]
    /\ I' = I + 1
    /\ pc' = "pretrain_layer_batch"
    /\ UNCHANGED <<fields, svm_vars, os>>
    /\ UNCHANGED <<desc_vars, tuples, call, input, batch_vars, out>>

\* The overload for ignored layers, lines 345-350.
pretrain_layer_batch_ignore ==
    /\ pc = "pretrain_layer_batch"
    /\ pretrain_layer_batch_overloads(I) = {"ignore"}
    /\ I' = I + 1
    /\ UNCHANGED <<fields, svm_vars, os>>
    /\ UNCHANGED <<desc_vars, tuples, pc, call, input, batch_vars, log, out>>

\* The overload that stops the recursion, line 423.
pretrain_layer_batch_stop ==
    /\ pc = "pretrain_layer_batch"
    /\ pretrain_layer_batch_overloads(I) = {"stop"}
    /\ pc' = "pretraining_end"
    /\ UNCHANGED <<fields, svm_vars, os>>
    /\ UNCHANGED <<desc_vars, tuples, call, I, input, batch_vars, log, out>>

\* --------------------------------------- train_with_labels, lines 464-540
\* Layer::prepare_output(n, is_last, labels): the vectors are labels wider
\* when is_last.
prepare_output_labels(N, n, is_last, labels) ==
    [k \in 1..n |->
        Zeros(rbm_type(N).output_size + (IF is_last THEN labels ELSE 0))]

\* Layer::activate_many(input, next_a, next_s), the value left in next_a
activate_many(N, h, inp) == [k \in 1..Len(inp) |-> activate_one(N, h, inp[k])]

\* A plausible slip: the positions counted from one.
one_hot_from_one(label, l) == IF label = l + 1 THEN 10 ELSE 0

\* label == l ? 1.0 : 0.0
one_hot(label, l) == IF label = l THEN 10 ELSE 0

\* Lines 494-513: big_next_a after the copy loop and the label loop.  The
\* label loop visits slot dll::output_size(rbm) + l for l < labels of the
\* sample i it has reached.
big_next_a(N, next_a, lit, labels) ==
    LET alloc == prepare_output_labels(N, Len(next_a), TRUE, labels)
        copied == [i \in 1..Len(alloc) |->
                     [j \in 1..Len(alloc[i]) |->
                        IF j <= Len(next_a[i]) THEN next_a[i][j] ELSE alloc[i][j]]]
        o == rbm_type(N).output_size
    IN [i \in 1..Len(copied) |->
          [j \in 1..Len(copied[i]) |->
             IF i <= Len(lit) /\ j > o /\ j <= o + labels
             THEN one_hot(lit[i], j - o - 1)
             ELSE copied[i][j]]]

\* A plausible slip: only the room for the labels is asserted.
labels_precondition_room_only(first_last, lit, labels) ==
    rbm_type(layers - 1).input_size = rbm_type(layers - 2).output_size + labels

\* The two cpp_assert of lines 466-467 and 527-528.
labels_precondition(first_last, lit, labels) ==
    /\ Len(first_last) = Len(lit)
    /\ rbm_type(layers - 1).input_size = rbm_type(layers - 2).output_size + labels

\* Lines 464-470 and 525-537, up to the call of train_with_labels<0>.
train_with_labels(net, first_last, lit, labels, E) ==
    /\ fresh
    /\ layers >= 2
    /\ call' = [op |-> "train_with_labels", net |-> net, data |-> first_last,
                max_epochs |-> E, random_access |-> TRUE, lit |-> lit,
                labels |-> labels]
    /\ I' = 0
    /\ IF labels_precondition(first_last, lit, labels)
       THEN /\ log' = [log EXCEPT ![net] = <<Ev("pretraining_begin", 0, E)>>]
            /\ input' = convert_input(first_last)
            /\ pc' = "train_with_labels"
            /\ out' = NoOut
       ELSE /\ pc' = "aborted"
            /\ out' = [NoOut EXCEPT !.op = "cpp_assert"]
            /\ UNCHANGED <<log, input>>
    /\ UNCHANGED <<fields, svm_vars, os>>
    /\ UNCHANGED <<desc_vars, tuples, batch_vars>>

\* A plausible slip: the policy of pretrain decides about the next layer.
labels_next_by_policy(N) == train_next(N + 1)

\* Line 485: if(I < layers - 1)
labels_next(N) == N < layers - 1

\* train_with_labels<I>, lines 472-520
train_with_labels_layer ==
    /\ pc = "train_with_labels"
    /\ I < layers
    /\ LET net == call.net
           h == train(tuples[net][I], input, call.max_epochs)
           next_a == activate_many(I, h, input)
       IN /\ log' = [log EXCEPT ![net] =
                        Append2(@, Ev("pretrain_layer", I, Len(input)),
                                   Ev("train", I, input))]
          /\ tuples' = [tuples EXCEPT ![net][I] = h]
          /\ IF labels_next(I)
             THEN /\ input' = IF I = layers - 2
                              THEN big_next_a(I, next_a, call.lit, call.labels)
                              ELSE next_a
                  /\ I' = I + 1
                  /\ pc' = "train_with_labels"
             ELSE /\ pc' = "labels_end"
                  /\ UNCHANGED <<input, I>>
    /\ UNCHANGED <<fields, svm_vars, os>>
    /\ UNCHANGED <<desc_vars, call, batch_vars, out>>

\* Line 539.
train_with_labels_end ==
    /\ pc = "labels_end"
    /\ log' = [log EXCEPT ![call.net] =
                  Append(@, Ev("pretraining_end", 0, 0))]
    /\ pc' = "returned"
    /\ out' = [NoOut EXCEPT !.op = call.op]
    /\ UNCHANGED <<fields, svm_vars, os>>
    /\ UNCHANGED <<desc_vars, tuples, call, I, input, batch_vars>>

\* The label sequences the caller passes: labels 0 .. MaxLabels in rotation.
LabelRanges(n) ==
    {[k \in 1..n |-> (k + shift) % (MaxLabels + 1)] : shift \in 0..1}
        \cup {[k \in 1..(n + 1) |-> k % (MaxLabels + 1)]}

\* ------------------------------------------ predict_labels, lines 546-599
\* Layer::activate_hidden(h_a, h_s, v_a, v_s), the value left in h_a
activate_hidden(N, h, v) == activate_one(N, h, v)

\* Layer::activate_visible(h_a, h_s, v_a, v_s), the value left in v_a
activate_visible(N, h, hid) ==
    [j \in 1..rbm_type(N).input_size |->
        (((SumAll(h) + Sum(hid) + j) * (SumAll(h) + Sum(hid) + j + 1)) \div 2) % 4]

\* Lines 567-574: next_a followed by labels entries of 0.1.
big_next_a_one(N, next_a, labels) ==
    [j \in 1..(rbm_type(N).output_size + labels) |->
        IF j <= Len(next_a) THEN next_a[j] ELSE 1]

\* predict_labels<N>(input, output, labels): the value left in output, and
\* the layer calls made, in order.
RECURSIVE predict_labels_from(_, _, _, _)
predict_labels_from(t, N, inp, labels) ==
    LET next_a == activate_hidden(N, t[N], inp)
    IN IF N = layers - 1
       THEN [output |-> activate_visible(N, t[N], next_a),
             trace |-> <<Ev("activate_hidden", N, 0), Ev("activate_visible", N, 0)>>]
       ELSE LET rest == predict_labels_from(t, N + 1,
                            IF N = layers - 2
                            THEN big_next_a_one(N, next_a, labels)
                            ELSE next_a,
                            labels)
            IN [output |-> rest.output,
                trace |-> <<Ev("activate_hidden", N, 0)>> \o rest.trace]

\* std::max_element over the iterator positions [first, last) of v: the scan
\* keeps the first position whose element no later one exceeds.
RECURSIVE max_element_last(_, _, _, _)
\* A plausible slip: a later element that equals the maximum replaces it.
max_element_last(v, largest, pos, last) ==
    IF pos = last THEN largest
    ELSE max_element_last(v, IF v[largest + 1] <= v[pos + 1] THEN pos ELSE largest,
                          pos + 1, last)

RECURSIVE max_element_scan(_, _, _, _)
max_element_scan(v, largest, pos, last) ==
    IF pos = last THEN largest
    ELSE max_element_scan(v, IF v[largest + 1] < v[pos + 1] THEN pos ELSE largest,
                          pos + 1, last)

max_element(v, first, last) ==
    IF first = last THEN last ELSE max_element_scan(v, first, first + 1, last)

\* A plausible slip: the maximum is searched in the whole reconstruction.
label_of_whole(output_a, labels) ==
    max_element(output_a, 0, Len(output_a)) - (Len(output_a) - labels)

\* Lines 596-598: the distance from prev(end, labels) to the maximum.
label_of(output_a, labels) ==
    max_element(output_a, Len(output_a) - labels, Len(output_a))
        - (Len(output_a) - labels)

\* Lines 586-599.
predict_labels(net, item_data, labels) ==
    /\ at_rest(net)
    /\ layers >= 2
    /\ IF rbm_type(layers - 1).input_size = rbm_type(layers - 2).output_size + labels
       THEN LET r == predict_labels_from(tuples[net], 0, convert_sample(item_data), labels)
            IN out' = [op |-> "predict_labels", result |-> label_of(r.output, labels),
                       vec |-> r.output, trace |-> r.trace]
       ELSE out' = [NoOut EXCEPT !.op = "cpp_assert"]
    /\ call' = [NoCall EXCEPT !.op = "predict_labels", !.net = net,
                              !.data = <<item_data>>, !.labels = labels]
    /\ pc' = "inferred"
    /\ UNCHANGED <<fields, svm_vars, os>>
    /\ UNCHANGED <<desc_vars, tuples, I, input, batch_vars, log>>

\* ------------------------------------------------- predict, lines 605-695
\* predict_label(result)
predict_label(result) == max_element(result, 0, Len(result)) - 0

\* The caller asks again about the sample of the inference call it has just
\* made, with no training call in between.
asks_again(net, item) == pc = "inferred" /\ net = call.net /\ item = call.data[1]

\* The caller's note of the call before this one: its name, its sample and
\* the index it returned.
call_before == IF pc = "inferred" THEN <<Ev(call.op, call.data[1], out.result)>> ELSE <<>>

\* A plausible slip: the sample is learnt while it is classified.
predict_and_learn(net, item) ==
    /\ at_rest(net) \/ asks_again(net, item)
    /\ LET result == activation_probabilities(tuples[net], 0, layers, convert_sample(item))
       IN out' = [op |-> "predict", result |-> predict_label(result),
                  vec |-> result, trace |-> call_before]
    /\ call' = [NoCall EXCEPT !.op = "predict", !.net = net, !.data = <<item>>]
    /\ pc' = "inferred"
    /\ tuples' = [tuples EXCEPT ![net][0] = train_sub(@, <<convert_sample(item)>>)]
    /\ UNCHANGED <<fields, svm_vars, os>>
    /\ UNCHANGED <<desc_vars, I, input, batch_vars, log>>

\* predict(item), with activation_probabilities(item_data) of lines 622-636.
predict(net, item) ==
    /\ at_rest(net) \/ asks_again(net, item)
    /\ LET result == activation_probabilities(tuples[net], 0, layers, convert_sample(item))
       IN out' = [op |-> "predict", result |-> predict_label(result),
                  vec |-> result, trace |-> call_before]
    /\ call' = [NoCall EXCEPT !.op = "predict", !.net = net, !.data = <<item>>]
    /\ pc' = "inferred"
    /\ UNCHANGED <<fields, svm_vars, os>>
    /\ UNCHANGED <<desc_vars, tuples, I, input, batch_vars, log>>

\* --------------------------- activation_probabilities(sample), lines 622-636
\* The layer calls activation_probabilities<N, S> makes, in order.
RECURSIVE activation_probabilities_calls(_, _)
activation_probabilities_calls(N, S) ==
    IF N < S - 1
    THEN <<Ev("activate_one", N, 0)>> \o activation_probabilities_calls(N + 1, S)
    ELSE <<Ev("activate_one", N, 0)>>

activation_probabilities_sample(net, item_data) ==
    /\ at_rest(net)
    /\ LET data == convert_sample(item_data)
       IN out' = [op |-> "activation_probabilities", result |-> 0,
                  vec |-> activation_probabilities(tuples[net], 0, layers, data),
                  trace |-> <<Ev("convert_sample", 0, 0)>>
                                \o activation_probabilities_calls(0, layers)]
    /\ call' = [NoCall EXCEPT !.op = "activation_probabilities", !.net = net,
                              !.data = <<item_data>>]
    /\ pc' = "inferred"
    /\ UNCHANGED <<fields, svm_vars, os>>
    /\ UNCHANGED <<desc_vars, tuples, I, input, batch_vars, log>>

\* ---------------------------- full_activation_probabilities, lines 638-674
\* full_output_size(), lines 215-221
full_output_size == Sum([N \in 1..layers |-> layers_t[N].output_size])

\* A plausible slip: every layer writes from the start of result.
write_values_from_start(result, i, next_a) ==
    [result |-> [k \in 1..Len(result) |->
                    IF k <= Len(next_a) THEN next_a[k] ELSE result[k]],
     i |-> Len(next_a)]

\* Lines 647-649: for(auto& value : next_a) result[i++] = value;
write_values(result, i, next_a) ==
    [result |-> [k \in 1..Len(result) |->
                    IF k > i /\ k <= i + Len(next_a) THEN next_a[k - i]
                    ELSE result[k]],
     i |-> i + Len(next_a)]

\* Layer::activate_one(v, a, s): the activation and a sample drawn from it.
\* The activation is that of the overload without s.
activate_one_s(N, h, v) ==
    LET a == activate_one(N, h, v)
    IN [next_a |-> a, next_s |-> [j \in 1..Len(a) |-> IF a[j] >= 2 THEN 1 ELSE 0]]

\* A plausible slip: every layer is given the converted sample, not the
\* activation of the layer below.
RECURSIVE full_activation_probabilities_of_input(_, _, _, _, _)
full_activation_probabilities_of_input(t, N, inp, i, result) ==
    IF N = layers
    THEN [result |-> result, i |-> i]
    ELSE LET next_a == activate_one_s(N, t[N], inp).next_a
             w == write_values(result, i, next_a)
         IN full_activation_probabilities_of_input(t, N + 1, inp, w.i, w.result)

\* full_activation_probabilities<N>(input, i, result): the values left in
\* result and in i.
RECURSIVE full_activation_probabilities_from(_, _, _, _, _)
full_activation_probabilities_from(t, N, inp, i, result) ==
    IF N = layers
    THEN [result |-> result, i |-> i]
    ELSE LET next_a == activate_one_s(N, t[N], inp).next_a
             w == write_values(result, i, next_a)
         IN full_activation_probabilities_from(t, N + 1, next_a, w.i, w.result)

\* Lines 658-674.
full_activation_probabilities(net, item_data) ==
    /\ at_rest(net)
    /\ LET data == convert_sample(item_data)
           r == full_activation_probabilities_from(tuples[net], 0, data, 0,
                                                   Zeros(full_output_size))
       IN out' = [op |-> "full_activation_probabilities", result |-> r.i,
                  vec |-> r.result, trace |-> <<>>]
    /\ call' = [NoCall EXCEPT !.op = "full_activation_probabilities",
                              !.net = net, !.data = <<item_data>>]
    /\ pc' = "inferred"
    /\ UNCHANGED <<fields, svm_vars, os>>
    /\ UNCHANGED <<desc_vars, tuples, I, input, batch_vars, log>>

\* ------------------------------------------------ fine_tune, lines 701-713
\* dbn_trainer::train(dbn, first, last, lfirst, llast, max_epochs,
\* batch_size): the layers as the trainer leaves them.
dbn_trainer_train(t, first_last, max_epochs) ==
    [N \in DOMAIN t |-> train(t[N], <<Zeros(rbm_type(N).input_size)>>, max_epochs)]

\* The value dbn_trainer::train returns: the error of the tuned network on
\* the labelled samples, in tenths.
dbn_trainer_error(t, a) ==
    (SumAll(t[layers - 1]) + Sum(a.lfirst_llast) + 2 * a.max_epochs
        + a.batch_size) % 7

\* A plausible slip: the two size_t arguments change places.
trainer_arguments_swapped(c) ==
    [dbn |-> c.net, first_last |-> c.data, lfirst_llast |-> c.lit,
     max_epochs |-> c.labels, batch_size |-> c.max_epochs]

\* Lines 709-712: the arguments of trainer.train, forwarded from those of
\* fine_tune (the call record keeps batch_size in its field labels).
trainer_arguments(c) ==
    [dbn |-> c.net, first_last |-> c.data, lfirst_llast |-> c.lit,
     max_epochs |-> c.max_epochs, batch_size |-> c.labels]

\* The caller fine-tunes a network as constructed on any samples, and a
\* network whose training call has returned on the samples of that call.
fine_tunes(net, first_last) ==
    \/ fresh
    \/ pc = "returned" /\ net = call.net /\ first_last = call.data

\* Lines 706-709, up to the call of trainer.train(*this, ...).
fine_tune(net, first_last, lit, max_epochs, batch_size) ==
    /\ fine_tunes(net, first_last)
    /\ call' = [op |-> "fine_tune", net |-> net, data |-> first_last,
                max_epochs |-> max_epochs, random_access |-> TRUE,
                lit |-> lit, labels |-> batch_size]
    /\ pc' = "fine_tune"
    /\ out' = NoOut
    /\ UNCHANGED <<fields, svm_vars, os>>
    /\ UNCHANGED <<desc_vars, tuples, I, input, batch_vars, log>>

\* Lines 709-713: trainer.train runs on the network and its value is
\* returned.
fine_tune_return ==
    /\ pc = "fine_tune"
    /\ LET a == trainer_arguments(call)
           t == dbn_trainer_train(tuples[a.dbn], a.first_last, a.max_epochs)
       IN /\ tuples' = [tuples EXCEPT ![a.dbn] = t]
          /\ out' = [op |-> "fine_tune", result |-> dbn_trainer_error(t, a),
                     vec |-> <<>>, trace |-> <<a>>]
    /\ pc' = "tuned"
    /\ UNCHANGED <<fields, svm_vars, os>>
    /\ UNCHANGED <<desc_vars, call, I, input, batch_vars, log>>

\* ------------------------------------------- store and load, lines 23-185
\* The stream is a sequence of numbers.  A read past its end fails and
\* leaves the value zero.
Get(is, k) == IF k <= Len(is) THEN is[k] ELSE 0

Drop(is, n) == SubSeq(is, n + 1, Len(is))

\* A sequence of vectors as written to a stream: their number, then each
\* vector's length and entries.
RECURSIVE EncodeVecsBody(_)
EncodeVecsBody(vs) ==
    IF vs = <<>> THEN <<>>
    ELSE <<Len(Head(vs))>> \o Head(vs) \o EncodeVecsBody(Tail(vs))

EncodeVecs(vs) == <<Len(vs)>> \o EncodeVecsBody(vs)

\* n vectors read from the stream, and the rest of the stream.
RECURSIVE DecodeVecsBody(_, _)
DecodeVecsBody(is, n) ==
    IF n = 0 THEN [value |-> <<>>, rest |-> is]
    ELSE LET w == Get(is, 1)
             r == DecodeVecsBody(Drop(is, 1 + w), n - 1)
         IN [value |-> <<[j \in 1..w |-> Get(is, 1 + j)]>> \o r.value,
             rest |-> r.rest]

DecodeVecs(is) == DecodeVecsBody(Drop(is, 1), Get(is, 1))

\* Layer::store(os): the block of the layer's parameters.
layer_store(h) == EncodeVecs(h)

\* Layer::load(is): the parameters read, and the rest of the stream.
layer_load(is) == DecodeVecs(is)

\* A plausible slip: a block is written for every layer.
store_layer_every(N, h) == layer_store(h)

\* store_layer(layer, os), lines 23-29: what it appends to the stream.
store_layer(N, h) ==
    IF rbm_type(N).is_pooling_layer THEN <<>> ELSE layer_store(h)

\* A plausible slip: a block is read for every layer.
load_layer_every(N, h, is) == layer_load(is)

\* load_layer(layer, is), lines 31-37: the layer, and the rest of the stream.
load_layer(N, h, is) ==
    IF rbm_type(N).is_pooling_layer THEN [value |-> h, rest |-> is]
    ELSE layer_load(is)

\* svm_store(dbn, os): a flag, and the model when one is trained or loaded.
svm_store(loaded, model) ==
    IF loaded
    THEN <<1>> \o EncodeVecs(<<model.problem.labels>> \o model.problem.samples)
    ELSE <<0>>

\* svm_load(dbn, is): svm_loaded and svm_model as read from the stream.
svm_load(model, is) ==
    IF Get(is, 1) = 1
    THEN LET r == DecodeVecs(Drop(is, 1))
         IN [loaded |-> TRUE,
             model |-> [trained |-> TRUE,
                        problem |-> [labels |-> IF r.value = <<>> THEN <<>>
                                                ELSE Head(r.value),
                                     samples |-> IF r.value = <<>> THEN <<>>
                                                 ELSE Tail(r.value)]],
             rest |-> r.rest]
    ELSE [loaded |-> FALSE, model |-> model, rest |-> Drop(is, 1)]

\* cpp::for_each(tuples, store_layer), lines 168-170: the stream written for
\* layers N .. layers-1 and the layers that wrote to it.
RECURSIVE store_layers(_, _)
store_layers(t, N) ==
    IF N = layers THEN [data |-> <<>>, trace |-> <<>>]
    ELSE LET block == store_layer(N, t[N])
             rest == store_layers(t, N + 1)
         IN [data |-> block \o rest.data,
             trace |-> (IF block = <<>> THEN <<>> ELSE <<Ev("store", N, block)>>)
                           \o rest.trace]

\* cpp::for_each(tuples, load_layer), lines 178-180: the layers after the
\* reads of layers N .. layers-1, the rest of the stream and the layers that
\* read from it.
RECURSIVE load_layers(_, _, _)
load_layers(t, N, is) ==
    IF N = layers THEN [tuples |-> t, rest |-> is, trace |-> <<>>]
    ELSE LET r == load_layer(N, t[N], is)
             rest == load_layers([t EXCEPT ![N] = r.value], N + 1, r.rest)
         IN [tuples |-> rest.tuples, rest |-> rest.rest,
             trace |-> (IF r.rest = is THEN <<>>
                        ELSE <<Ev("load", N, SubSeq(is, 1, Len(is) - Len(r.rest)))>>)
                           \o rest.trace]

\* store(os), lines 167-175.
store(net) ==
    /\ pc \in {"idle", "svm"}
    /\ LET w == store_layers(tuples[net], 0)
           c == svm_store(svm_loaded[net], svm_model[net])
       IN /\ os' = [by |-> net, data |-> w.data \o c, written |-> TRUE]
          /\ out' = [op |-> "store", result |-> 0, vec |-> w.data \o c,
                     trace |-> Append(w.trace, Ev("svm_store", layers, c))]
    /\ call' = [NoCall EXCEPT !.op = "store", !.net = net]
    /\ pc' = "stored"
    /\ UNCHANGED <<fields, svm_vars>>
    /\ UNCHANGED <<desc_vars, tuples, I, input, batch_vars, log>>

\* load(is), lines 177-185.
load(net) ==
    /\ pc = "stored"
    /\ os.written
    /\ LET r == load_layers(tuples[net], 0, os.data)
           c == svm_load(svm_model[net], r.rest)
       IN /\ tuples' = [tuples EXCEPT ![net] = r.tuples]
          /\ svm_loaded' = [svm_loaded EXCEPT ![net] = c.loaded]
          /\ svm_model' = [svm_model EXCEPT ![net] = c.model]
          /\ out' = [op |-> "load", result |-> Len(c.rest), vec |-> os.data,
                     trace |-> Append(r.trace,
                                      Ev("svm_load", layers,
                                         SubSeq(r.rest, 1, Len(r.rest) - Len(c.rest))))]
    /\ call' = [NoCall EXCEPT !.op = "load", !.net = net]
    /\ pc' = "loaded"
    /\ UNCHANGED <<fields, problem, os>>
    /\ UNCHANGED <<desc_vars, I, input, batch_vars, log>>

\* ----------------------------------------- the classifier, lines 724-876
\* svm::make_problem(labels, samples, scale)
svm_make_problem(labels, samples) == [labels |-> labels, samples |-> samples]

\* default_svm_parameters()
default_svm_parameters == [valid |-> TRUE]

\* svm::check(problem, parameters)
svm_check(p, parameters) == parameters.valid /\ p.samples # <<>>

\* svm::train(problem, parameters): the model refers to its problem.
svm_train_model(p, parameters) == [trained |-> TRUE, problem |-> p]

\* make_problem(training_data, labels, scale), lines 745-756, with the
\* add_activation_probabilities of lines 739-743: the value assigned to
\* problem.
make_problem(net, training_data, labels) ==
    svm_make_problem(labels,
        [k \in 1..Len(training_data) |->
            activation_probabilities(tuples[net], 0, layers,
                                     convert_sample(training_data[k]))])

\* svm_train(training_data, labels, parameters), lines 774-796.
svm_train(net, training_data, labels, parameters) ==
    /\ pc \in {"idle", "svm"}
    /\ problem' = [problem EXCEPT ![net] = make_problem(net, training_data, labels)]
    /\ IF ~svm_check(problem'[net], parameters)
       THEN /\ out' = [NoOut EXCEPT !.op = "svm_train", !.result = 0]
            /\ UNCHANGED <<svm_model, svm_loaded>>
       ELSE /\ svm_model' = [svm_model EXCEPT ![net] =
                                svm_train_model(problem'[net], parameters)]
            /\ svm_loaded' = [svm_loaded EXCEPT ![net] = TRUE]
            /\ out' = [NoOut EXCEPT !.op = "svm_train", !.result = 1]
    /\ call' = [NoCall EXCEPT !.op = "svm_train", !.net = net,
                              !.data = training_data, !.lit = labels]
    /\ pc' = "svm"
    /\ UNCHANGED <<fields, os>>
    /\ UNCHANGED <<desc_vars, tuples, I, input, batch_vars, log>>

\* svm_grid_search(training_data, labels, n_fold, g), lines 825-843.
svm_grid_search(net, training_data, labels) ==
    /\ pc \in {"idle", "svm"}
    /\ problem' = [problem EXCEPT ![net] = make_problem(net, training_data, labels)]
    /\ IF ~svm_check(problem'[net], default_svm_parameters)
       THEN out' = [NoOut EXCEPT !.op = "svm_grid_search", !.result = 0]
       ELSE out' = [NoOut EXCEPT !.op = "svm_grid_search", !.result = 1]
    /\ call' = [NoCall EXCEPT !.op = "svm_grid_search", !.net = net,
                              !.data = training_data, !.lit = labels]
    /\ pc' = "svm"
    /\ UNCHANGED <<fields, svm_model, svm_loaded, os>>
    /\ UNCHANGED <<desc_vars, tuples, I, input, batch_vars, log>>

\* ------------------------------------------------------------------- Next
Next ==
    \/ \E net \in Nets, r \in Ranges, E \in 0..MaxEpochs, ra \in BOOLEAN :
          pretrain(net, r, E, ra)
    \/ pretrain_layer
    \/ pretrain_layer_batch_begin
    \/ init_epoch
    \/ train_big_batch
    \/ finalize_epoch
    \/ finalize_training
    \/ pretrain_layer_batch_ignore
    \/ pretrain_layer_batch_stop
    \/ pretraining_end
    \/ \E net \in Nets, r \in Ranges, E \in 0..MaxEpochs, l \in 1..MaxLabels :
          \E lit \in LabelRanges(Len(r)) : train_with_labels(net, r, lit, l, E)
    \/ train_with_labels_layer
    \/ train_with_labels_end
    \/ \E net \in Nets, r \in Ranges, E \in 1..MaxEpochs, B \in 1..MaxBatchSize :
          fine_tune(net, r, r, E, B)
    \/ fine_tune_return

Spec == Init /\ [][Next]_vars

\* One batched pretrain call on a network as constructed.
NextBatch ==
    \/ \E r \in Ranges, E \in 0..MaxEpochs, ra \in BOOLEAN :
          pretrain("batch", r, E, ra)
    \/ pretrain_layer_batch_begin
    \/ init_epoch
    \/ train_big_batch
    \/ finalize_epoch
    \/ finalize_training
    \/ pretrain_layer_batch_ignore
    \/ pretrain_layer_batch_stop
    \/ pretraining_end

\* The call runs on one thread that takes its next step whenever it has one.
SpecLive == Init /\ [][NextBatch]_vars /\ WF_vars(NextBatch)

\* ---------------------------------------------------------- inference only
\* Parameters a layer of input width w may hold after training.
Trained(w) == {Repeat(<<Zeros(w)>>, k) : k \in 0..MaxTrained}

\* The networks after some training: every layer holds trained parameters.
InitInfer ==
    /\ layers_t \in Stacks
    /\ BatchSize = 1
    /\ \E t \in [0..(Len(layers_t) - 1) -> Trained(1)] :
          tuples = [net \in Nets |->
                      [N \in 0..(Len(layers_t) - 1) |->
                          Repeat(<<Zeros(layers_t[N + 1].input_size)>>, Len(t[N]))]]
    /\ pc = "idle"
    /\ call = NoCall
    /\ I = 0
    /\ input = <<>>
    /\ epoch = 0
    /\ it = 0
    /\ big_batch = 0
    /\ activated_input = <<>>
    /\ context = 0
    /\ log = [net \in Nets |-> <<>>]
    /\ out = NoOut
    /\ fields = [net \in Nets |-> default_fields]
    /\ svm_model = [net \in Nets |-> NoModel]
    /\ problem = [net \in Nets |-> NoProblem]
    /\ svm_loaded = [net \in Nets |-> FALSE]
    /\ os = NoStream

NextInfer ==
    \/ \E item \in 1..MaxSamples, l \in 1..MaxLabels :
          predict_labels("full", item, l)
    \/ \E item \in 1..MaxSamples : predict("full", item)
    \/ \E item \in 1..MaxSamples : activation_probabilities_sample("full", item)
    \/ \E item \in 1..MaxSamples : full_activation_probabilities("full", item)

SpecInfer == InitInfer /\ [][NextInfer]_vars

\* ----------------------------------------- persistence and the classifier
\* The parameters of layer N after k presentations of a sample.
TrainedRows(N, k) ==
    [r \in 1..k |-> [j \in 1..layers_t[N + 1].input_size |-> (r + j + N) % 4]]

\* A trained network and a network as constructed, on the same stack; a
\* pooling layer has no parameters.
InitStore ==
    /\ layers_t \in Stacks
    /\ BatchSize = 1
    /\ \E k \in [0..(Len(layers_t) - 1) -> 1..MaxStored] :
          tuples = [net \in Nets |->
                      [N \in 0..(Len(layers_t) - 1) |->
                          IF net = "batch" \/ layers_t[N + 1].is_pooling_layer
                          THEN <<>>
                          ELSE TrainedRows(N, k[N])]]
    /\ pc = "idle"
    /\ call = NoCall
    /\ I = 0
    /\ input = <<>>
    /\ epoch = 0
    /\ it = 0
    /\ big_batch = 0
    /\ activated_input = <<>>
    /\ context = 0
    /\ log = [net \in Nets |-> <<>>]
    /\ out = NoOut
    /\ fields = [net \in Nets |-> default_fields]
    /\ svm_model = [net \in Nets |-> NoModel]
    /\ problem = [net \in Nets |-> NoProblem]
    /\ svm_loaded = [net \in Nets |-> FALSE]
    /\ os = NoStream

NextStore ==
    \/ \E r \in Ranges, valid \in BOOLEAN :
          svm_train("full", r, r, [valid |-> valid])
    \/ \E r \in Ranges : svm_grid_search("full", r, r)
    \/ \E net \in Nets : store(net)
    \/ \E net \in Nets : load(net)

SpecStore == InitStore /\ [][NextStore]_vars

\* ------------------------------------------------------ reading the log
IsTrainStart(e) == e.ev \in {"train", "init_training"}

IsTrainerCall(e) ==
    e.ev \in {"train", "init_training", "init_epoch", "train_sub",
              "finalize_epoch", "finalize_training"}

IsPretrainLayer(e) == e.ev = "pretrain_layer"

\* The layer indices whose training routine was invoked, in order.
TrainedLayers(net) ==
    LET starts == SelectSeq(log[net], IsTrainStart)
    IN [k \in 1..Len(starts) |-> starts[k].I]

TrainedSet(net) == {TrainedLayers(net)[k] : k \in 1..Len(TrainedLayers(net))}

\* The control thread is inside a training call on net.
Running(net) ==
    /\ call.net = net
    /\ pc \notin {"idle", "returned", "aborted", "inferred", "fine_tune", "tuned"}

\* A pretrain call on net has returned.
PretrainReturned(net) ==
    /\ call.op = "pretrain"
    /\ log[net] # <<>>
    /\ ~Running(net)

\* ----------------------------------------------------------------- claims
\* Adjacent layers agree on their width.
WidthsChain ==
    \A N \in 0..(layers - 2) : rbm_type(N).output_size = rbm_type(N + 1).input_size

\* Every layer is a trainable layer marked pretrain_last.
PlainStack ==
    \A N \in 0..(layers - 1) :
        ~rbm_type(N).is_pooling_layer /\ rbm_type(N).pretrain_last

\* The call has samples to train on, for at least one epoch.
RealCall == call.data # <<>> /\ call.max_epochs >= 1

\* C1: full-materialization pretrain and batched pretrain, given the same
\* layer stack, samples and max_epochs, train the same layer indices in the
\* same order and leave every trained layer with the same parameters.  (Stated
\* for stacks of trainable pretrain_last layers of matching widths, a
\* non-empty sample sequence, max_epochs >= 1 and a big batch of at least one
\* sample, where the two modes are meant to differ in memory use only.)
C1_ModesEquivalent ==
    (/\ PretrainReturned("full") /\ PretrainReturned("batch")
     /\ PlainStack /\ WidthsChain /\ RealCall /\ BatchSize >= 1)
        => /\ TrainedLayers("full") = TrainedLayers("batch")
           /\ \A N \in TrainedSet("full") : tuples["full"][N] = tuples["batch"][N]

C3_PoolingNeverTrained ==
    \A net \in Nets :
        (call.op = "pretrain" /\ WidthsChain /\ RealCall
         /\ ~rbm_type(0).is_pooling_layer)
            => \A k \in 1..Len(log[net]) :
                  IsTrainerCall(log[net][k])
                      => ~rbm_type(log[net][k].I).is_pooling_layer

\* C4: in every training call that passes its preconditions the watcher gets
\* one pretraining_begin, first; one pretraining_end, last, once the call has
\* returned; and in between pretrain_layer events of strictly increasing
\* layer index, each before the trainer calls of its layer and after those of
\* the layers before it.
C4_WatcherOrder ==
    \A net \in Nets :
        LET L == log[net]
        IN L # <<>> =>
            /\ L[1].ev = "pretraining_begin"
            /\ \A k \in 2..Len(L) : L[k].ev # "pretraining_begin"
            /\ \A k \in 1..(Len(L) - 1) : L[k].ev # "pretraining_end"
            /\ Running(net) <=> L[Len(L)].ev # "pretraining_end"
            /\ \A p, q \in 1..Len(L) :
                  (p < q /\ IsPretrainLayer(L[p]) /\ IsPretrainLayer(L[q]))
                      => L[p].I < L[q].I
            /\ \A q \in 1..Len(L) :
                  IsTrainerCall(L[q])
                      => \E p \in 1..(q - 1) :
                            IsPretrainLayer(L[p]) /\ L[p].I = L[q].I
            /\ \A p, q \in 1..Len(L) :
                  (p < q /\ IsTrainerCall(L[p]) /\ IsPretrainLayer(L[q]))
                      => L[p].I < L[q].I

\* C4 witness: batched pretrain has returned after full pretrain did, and the
\* watcher saw at least two layers in the batched call.
C4_Witness ==
    /\ PretrainReturned("full") /\ PretrainReturned("batch")
    /\ Len(SelectSeq(log["batch"], IsPretrainLayer)) >= 2
    /\ Len(SelectSeq(log["full"], IsPretrainLayer)) >= 2
    /\ RealCall

\* The width precondition of train_with_labels, read off the layer types.
LabelRoom ==
    rbm_type(layers - 1).input_size
        = rbm_type(layers - 2).output_size + call.labels

\* C5: train_with_labels with a sample count different from the label count,
\* or without room for the labels in the last layer, fails before any
\* watcher event and before any layer is trained: no parameter changes.
C5_PreconditionFailure ==
    (call.op = "train_with_labels"
     /\ (Len(call.data) # Len(call.lit) \/ ~LabelRoom))
        => /\ pc = "aborted"
           /\ log[call.net] = <<>>
           /\ \A net \in Nets, N \in 0..(layers - 1) : tuples[net][N] = <<>>

\* C5 witness: the call was refused for its label count alone.
C5_Witness ==
    /\ pc = "aborted"
    /\ call.op = "train_with_labels"
    /\ Len(call.data) # Len(call.lit)
    /\ LabelRoom

\* C6: no training call trains layers on a stack that violates the width
\* invariant: two adjacent layers that were both trained agree on their
\* width (the labels counted in before the last layer of train_with_labels).
C6_WidthInvariantEnforced ==
    \A net \in Nets, N \in 0..(layers - 2) :
        (N \in TrainedSet(net) /\ (N + 1) \in TrainedSet(net) /\ RealCall)
            => rbm_type(N + 1).input_size
                  = rbm_type(N).output_size
                      + (IF call.op = "train_with_labels" /\ N = layers - 2
                         THEN call.labels ELSE 0)

\* The input of the train call of layer N in a train_with_labels call.
TrainInput(net, N) ==
    LET calls == SelectSeq(log[net], IsTrainStart)
    IN calls[N + 1].arg

\* C7: the buffer train_with_labels gives the last layer holds, per sample,
\* the activation of the second-to-last layer followed by label_count
\* entries: 1.0 where the position is the sample's label, 0.0 elsewhere;
\* nothing but those trailing entries is written by the encoding, whatever
\* the label.  For label_count 3 and label 1 the entries are 0.0, 1.0, 0.0.
C7_LabelBuffer ==
    /\ one_hot(1, 0) = 0 /\ one_hot(1, 1) = 10 /\ one_hot(1, 2) = 0
    /\ (pc = "train_with_labels" /\ I = layers - 1) =>
          LET net == call.net
              o == rbm_type(layers - 2).output_size
              prev == TrainInput(net, layers - 2)
              h == tuples[net][layers - 2]
          IN /\ Len(input) = Len(call.data)
             /\ \A i \in 1..Len(input) :
                   /\ Len(input[i]) = o + call.labels
                   /\ \A j \in 1..o :
                         input[i][j] = activate_one(layers - 2, h, prev[i])[j]
                   /\ \A l \in 0..(call.labels - 1) :
                         input[i][o + l + 1] = IF call.lit[i] = l THEN 10 ELSE 0

\* C7 witness: three labels, one sample labelled 1 whose trailing entries are
\* 0.0, 1.0, 0.0, and one sample whose label is no valid position.
C7_Witness ==
    /\ pc = "train_with_labels" /\ I = layers - 1
    /\ call.labels = 3
    /\ \E i \in 1..Len(input) :
          /\ call.lit[i] = 1
          /\ SubSeq(input[i], Len(input[i]) - 2, Len(input[i])) = <<0, 10, 0>>
    /\ \E i \in 1..Len(input) : call.lit[i] >= call.labels

\* C8: a train_with_labels call that passes its preconditions trains layers
\* 0 .. layers-1 once each, in increasing order, the last one whatever its
\* pretrain_last marking, each on the activation of the layer before it (the
\* labels appended for the last layer only), and then ends.
C8_LabelsTrainsAll ==
    LET net == call.net
    IN /\ pc = "train_with_labels" =>
             /\ I < layers
             /\ TrainedLayers(net) = [k \in 1..I |-> k - 1]
       /\ (call.op = "train_with_labels" /\ pc \in {"labels_end", "returned"}) =>
             /\ TrainedLayers(net) = [k \in 1..layers |-> k - 1]
             /\ TrainInput(net, 0) = convert_input(call.data)
             /\ \A N \in 1..(layers - 1) :
                   LET o == rbm_type(N - 1).output_size
                       prev == TrainInput(net, N - 1)
                       cur == TrainInput(net, N)
                       act == [i \in 1..Len(prev) |->
                                 activate_one(N - 1, tuples[net][N - 1], prev[i])]
                   IN /\ Len(cur) = Len(prev)
                      /\ N < layers - 1 => cur = act
                      /\ N = layers - 1 =>
                            \A i \in 1..Len(cur) :
                               SubSeq(cur[i], 1, o) = act[i]

\* C8 witness: a returned call on three layers whose last layer is not marked
\* pretrain_last.
C8_Witness ==
    /\ call.op = "train_with_labels" /\ pc = "returned"
    /\ layers = 3
    /\ ~rbm_type(2).pretrain_last
    /\ TrainedLayers(call.net) = <<0, 1, 2>>
    /\ RealCall

\* The trailing labels entries of a vector.
Trailing(v, labels) == SubSeq(v, Len(v) - labels + 1, Len(v))

\* p is the position, counted from 0, of the first maximum of t.
FirstMaximum(t, p) ==
    /\ p \in 0..(Len(t) - 1)
    /\ \A k \in 1..Len(t) : t[k] <= t[p + 1]
    /\ \A k \in 1..p : t[k] < t[p + 1]

\* C9: predict_labels activates the hidden units of layers 0 .. layers-1 in
\* order, reconstructs the visible units of the last layer, and returns the
\* position of the first maximum among the trailing label_count entries of
\* the reconstruction: a value in 0 .. label_count-1 that is the same for
\* every reconstruction with these trailing entries.
C9_PredictLabels ==
    out.op = "predict_labels" =>
        /\ out.trace = [k \in 1..(layers + 1) |->
                          IF k <= layers THEN Ev("activate_hidden", k - 1, 0)
                          ELSE Ev("activate_visible", layers - 1, 0)]
        /\ out.result \in 0..(call.labels - 1)
        /\ FirstMaximum(Trailing(out.vec, call.labels), out.result)
        /\ \A lead \in [1..(Len(out.vec) - call.labels) -> 0..3] :
              label_of(lead \o Trailing(out.vec, call.labels), call.labels)
                  = out.result

\* C9 witness: the maximum of the trailing entries occurs twice and a leading
\* entry exceeds it.
C9_Witness ==
    /\ out.op = "predict_labels"
    /\ \E k \in 1..call.labels :
          /\ k # out.result + 1
          /\ Trailing(out.vec, call.labels)[k]
                = Trailing(out.vec, call.labels)[out.result + 1]
    /\ \E j \in 1..(Len(out.vec) - call.labels) :
          out.vec[j] > Trailing(out.vec, call.labels)[out.result + 1]

\* C10: predict returns the position of the maximum of the sample's
\* activation_probabilities, the smallest one when the maximum occurs more
\* than once; for the activations 0.1, 0.9, 0.3 it returns 1.
C10_Predict ==
    /\ predict_label(<<1, 9, 3>>) = 1
    /\ out.op = "predict" =>
          /\ out.vec = activation_probabilities(tuples[call.net], 0, layers,
                                                convert_sample(call.data[1]))
          /\ FirstMaximum(out.vec, out.result)

\* C10 witness: the maximum occurs twice and is not 0.0.
C10_Witness ==
    /\ out.op = "predict"
    /\ \E k \in 1..Len(out.vec) :
          k # out.result + 1 /\ out.vec[k] = out.vec[out.result + 1]
    /\ out.vec[out.result + 1] > 0

\* The call before this predict was a predict of the same sample.
PredictedTwice(o, c) ==
    /\ o.op = "predict"
    /\ o.trace # <<>>
    /\ o.trace[1].ev = "predict"
    /\ o.trace[1].I = c.data[1]

\* C11: an inference call (predict, predict_labels, activation_probabilities,
\* full_activation_probabilities) changes no layer's parameters and none of
\* the network's training fields, and a predict that follows a predict of the
\* same sample, with no training call in between, returns the same index.
C11_InferenceIdempotent ==
    [][/\ tuples' = tuples
       /\ fields' = fields
       /\ PredictedTwice(out', call') => out'.result = out'.trace[1].arg]_vars

\* C11 witness: a second predict of a sample has returned a non-zero index, on
\* a network whose layers hold trained parameters.
C11_Witness ==
    /\ PredictedTwice(out, call)
    /\ out.result > 0
    /\ \A N \in 0..(layers - 1) : tuples[call.net][N] # <<>>

\* The output of layer N for the converted sample v: the activation of the
\* output of layer N - 1.
RECURSIVE LayerOutput(_, _, _)
LayerOutput(t, N, v) ==
    activate_one(N, t[N], IF N = 0 THEN v ELSE LayerOutput(t, N - 1, v))

\* The sum of the output widths of layers 0 .. N-1.
Offset(N) == Sum([K \in 1..N |-> layers_t[K].output_size])

\* C12: full_activation_probabilities(sample) returns a vector as wide as the
\* sum of all layers' output widths: layer N's output lies at the positions
\* from the sum of the output widths of layers 0 .. N-1 onward, in stack
\* order with no gap and no overlap, and the write index ends at
\* full_output_size().
C12_FullActivationLayout ==
    out.op = "full_activation_probabilities" =>
        /\ Len(out.vec) = Offset(layers)
        /\ out.result = full_output_size
        /\ full_output_size = Offset(layers)
        /\ \A N \in 0..(layers - 1) :
              SubSeq(out.vec, Offset(N) + 1, Offset(N + 1))
                 = LayerOutput(tuples[call.net], N, convert_sample(call.data[1]))

\* C12 witness: three layers of different output widths whose outputs differ.
C12_Witness ==
    /\ out.op = "full_activation_probabilities"
    /\ layers = 3
    /\ rbm_type(0).output_size # rbm_type(1).output_size
    /\ SubSeq(out.vec, 1, Offset(1)) # SubSeq(out.vec, Offset(2) + 1, Offset(3))
    /\ \E k \in 1..Len(out.vec) : out.vec[k] > 0

\* C13: activation_probabilities(sample) converts the sample once with layer
\* 0's conversion, then calls activate_one of layers 0 .. layers-1 once each
\* in that order, each on the output of the layer before, and returns the
\* output of layer layers-1; activation_probabilities<0, S> applies layers
\* 0 .. S-1 and returns the output of layer S-1.
C13_ActivationChain ==
    out.op = "activation_probabilities" =>
        LET t == tuples[call.net]
            v == convert_sample(call.data[1])
        IN /\ out.trace = [k \in 1..(layers + 1) |->
                             IF k = 1 THEN Ev("convert_sample", 0, 0)
                             ELSE Ev("activate_one", k - 2, 0)]
           /\ out.vec = LayerOutput(t, layers - 1, v)
           /\ \A S \in 1..layers :
                 /\ activation_probabilities(t, 0, S, v) = LayerOutput(t, S - 1, v)
                 /\ activation_probabilities_calls(0, S)
                       = [k \in 1..S |-> Ev("activate_one", k - 1, 0)]

\* C13 witness: three layers, and the value returned is neither the first
\* nor the second layer's output.
C13_Witness ==
    /\ out.op = "activation_probabilities"
    /\ layers = 3
    /\ out.vec # LayerOutput(tuples[call.net], 0, convert_sample(call.data[1]))
    /\ out.vec # LayerOutput(tuples[call.net], 1, convert_sample(call.data[1]))

\* Layer N has a block in the stream.
IsStored(N) == ~rbm_type(N).is_pooling_layer

\* The indices of the layers that are not pooling layers, in stack order.
StoredLayers == SelectSeq([k \in 1..layers |-> k - 1], IsStored)

\* The stream pieces of the calls of a trace, one after the other.
RECURSIVE Pieces(_)
Pieces(trace) == IF trace = <<>> THEN <<>> ELSE Head(trace).arg \o Pieces(Tail(trace))

\* C14: store writes one block per layer that is not a pooling layer, in
\* stack order, nothing for a pooling layer, and then the classifier's part,
\* which holds a model block only if a model was trained or loaded; load
\* reads the stream in the same order, to its end, and reads nothing for a
\* pooling layer.
C14_StoreLoadOrder ==
    LET n == Len(StoredLayers)
    IN /\ out.op = "store" =>
            /\ Len(out.trace) = n + 1
            /\ \A k \in 1..n :
                  out.trace[k] = Ev("store", StoredLayers[k],
                                    layer_store(tuples[call.net][StoredLayers[k]]))
            /\ out.trace[n + 1].ev = "svm_store"
            /\ Len(out.trace[n + 1].arg) > 1 <=> svm_loaded[call.net]
            /\ os.data = Pieces(out.trace)
       /\ out.op = "load" =>
            /\ Len(out.trace) = n + 1
            /\ \A k \in 1..n :
                  /\ out.trace[k].ev = "load"
                  /\ out.trace[k].I = StoredLayers[k]
                  /\ out.trace[k].arg = layer_store(tuples[os.by][StoredLayers[k]])
            /\ out.trace[n + 1].ev = "svm_load"
            /\ Len(out.trace[n + 1].arg) > 1 <=> svm_loaded[os.by]
            /\ os.data = Pieces(out.trace)
            /\ out.result = 0

\* C14 witness: a stream with a model block, written by a network with a
\* pooling layer between two trained layers, was loaded into the other
\* network.
C14_Witness ==
    /\ out.op = "load"
    /\ call.net # os.by
    /\ svm_loaded[os.by]
    /\ layers = 3
    /\ rbm_type(1).is_pooling_layer
    /\ StoredLayers = <<0, 2>>
    /\ Len(tuples[os.by][2]) = 2

\* C15: after a network was stored and the stream loaded into a network of
\* the same layer stack, activation_probabilities(sample) of the loaded
\* network equals, for every sample, the value the stored network gave
\* before it was stored.
C15_RoundTrip ==
    [][(out.op = "store" /\ out'.op = "load") =>
          \A item \in 1..MaxSamples :
              activation_probabilities(tuples'[call'.net], 0, layers,
                                       convert_sample(item))
                 = activation_probabilities(tuples[call.net], 0, layers,
                                            convert_sample(item))]_vars

\* C15 witness: the trained network was loaded into the network as
\* constructed, which now gives a sample another value than it gave before.
C15_Witness ==
    /\ out.op = "load"
    /\ call.net = "batch" /\ os.by = "full"
    /\ layers = 3
    /\ \E N \in 0..(layers - 1) : rbm_type(N).is_pooling_layer
    /\ tuples["batch"] = tuples["full"]
    /\ \E item \in 1..MaxSamples :
          activation_probabilities(tuples["batch"], 0, layers, convert_sample(item))
             # activation_probabilities([N \in 0..(layers - 1) |-> <<>>], 0,
                                        layers, convert_sample(item))

\* C16: whenever fine_tune hands the network to the FineTuner, a pretrain or
\* train_with_labels call on that network has completed, and the network is
\* changed by nothing but the FineTuner until fine_tune returns.
C16_FineTunePretrained ==
    (pc = "fine_tune" /\ call.data # <<>>) =>
        /\ log[call.net] # <<>>
        /\ log[call.net][Len(log[call.net])].ev = "pretraining_end"

\* The model of net is the one trained on the problem net holds.
Paired(m, p, net) == m[net].trained /\ m[net].problem = p[net]

\* C17: when the classifier parameter check fails, svm_train and
\* svm_grid_search return false and leave the stored problem, the stored
\* model and svm_loaded as they were before the call: a model trained before
\* the call is still paired with the problem it was trained on.
C17_FailureLeavesClassifier ==
    [][(/\ out'.op \in {"svm_train", "svm_grid_search"}
        /\ out'.result = 0
        /\ Paired(svm_model, problem, call'.net))
          => /\ problem' = problem
             /\ svm_model' = svm_model
             /\ svm_loaded' = svm_loaded
             /\ Paired(svm_model', problem', call'.net)]_vars

\* The batched pretrain call whose log is read.
BatchCall == call.op = "pretrain" /\ call.net = "batch"

\* C18: in batched pretraining of a layer N > 0 every train_sub call gets
\* the activations, through layers 0 .. N-1, of the raw samples of its slice
\* and nothing else: a last slice shorter than big_batch_size carries no
\* activation of an earlier slice.  (Stated for stacks of matching widths
\* and a big batch of at least one sample.)
C18_BatchSliceExact ==
    (BatchCall /\ WidthsChain /\ BatchSize >= 1) =>
        \A k \in 1..Len(log["batch"]) :
            LET e == log["batch"][k]
            IN (e.ev = "train_sub" /\ e.I > 0) =>
                  e.arg.input
                     = [j \in 1..(e.arg.last - e.arg.first) |->
                          activation_probabilities(tuples["batch"], 0, e.I,
                              convert_sample(call.data[e.arg.first + j]))]

\* C19: batched pretrain skips only pooling layers and a last layer not
\* marked pretrain_last: every other layer is trained, whatever its
\* pretrain_last marking.  (Stated for stacks of matching widths, a non-empty
\* sample sequence and max_epochs >= 1.)
C19_BatchSkipsOnlyPolicy ==
    (PretrainReturned("batch") /\ call.net = "batch" /\ WidthsChain /\ RealCall) =>
        \A N \in 0..(layers - 1) :
            (N \in TrainedSet("batch"))
               <=> /\ ~rbm_type(N).is_pooling_layer
                   /\ N < layers - 1 \/ rbm_type(N).pretrain_last

\* The events of batched pretraining that carry an epoch's context.
InEpoch(e) == e.ev \in {"init_epoch", "train_sub", "finalize_epoch"}

\* Event b may directly follow event a in the log of a batched pretrain call
\* on n samples for E epochs with big batches of size bbs.
Follows(a, b, n, E, bbs) ==
    LET same == a.I = b.I
    IN CASE b.ev = "pretraining_begin" -> FALSE
         [] b.ev = "pretrain_layer" ->
               \/ a.ev = "pretraining_begin"
               \/ a.ev = "finalize_training" /\ a.I < b.I
         [] b.ev = "init_training" -> a.ev = "pretrain_layer" /\ same
         [] b.ev = "init_epoch" ->
               /\ same
               /\ b.arg.epoch < E
               /\ \/ a.ev = "init_training" /\ b.arg.epoch = 0
                  \/ /\ a.ev = "finalize_epoch"
                     /\ b.arg.epoch = a.arg.epoch + 1
                     /\ b.arg.context # a.arg.context
         [] b.ev = "train_sub" ->
               /\ same
               /\ b.arg.context = a.arg.context
               /\ b.arg.last = (IF b.arg.first + bbs < n THEN b.arg.first + bbs ELSE n)
               /\ \/ a.ev = "init_epoch" /\ b.arg.first = 0 /\ n > 0
                  \/ a.ev = "train_sub" /\ b.arg.first = a.arg.last /\ a.arg.last < n
         [] b.ev = "finalize_epoch" ->
               /\ same
               /\ b.arg.context = a.arg.context
               /\ \/ a.ev = "init_epoch" /\ n = 0 /\ b.arg.epoch = a.arg.epoch
                  \/ a.ev = "train_sub" /\ a.arg.last = n
         [] b.ev = "finalize_training" ->
               /\ same
               /\ \/ a.ev = "init_training" /\ E = 0
                  \/ a.ev = "finalize_epoch" /\ a.arg.epoch = E - 1
         [] b.ev = "pretraining_end" ->
               a.ev \in {"pretraining_begin", "finalize_training"}
         [] OTHER -> FALSE

\* C20: in batched pretraining each trained layer goes through init_training
\* once; then for each epoch 0 .. max_epochs-1 in order a new context,
\* init_epoch, one train_sub per slice with that context, and
\* finalize_epoch(epoch, context); then finalize_training once, before the
\* next layer starts.  No context serves two epochs or two layers, and with
\* max_epochs = 0 there is no init_epoch, train_sub or finalize_epoch.
C20_BatchEpochSequence ==
    BatchCall =>
        LET L == log["batch"]
            n == Len(call.data)
            E == call.max_epochs
        IN /\ \A k \in 2..Len(L) :
                 Follows(L[k - 1], L[k], n, E, big_batch_size(L[k].I))
           /\ \A p, q \in 1..Len(L) :
                 (/\ InEpoch(L[p]) /\ InEpoch(L[q])
                  /\ L[p].arg.context = L[q].arg.context)
                     => /\ L[p].I = L[q].I
                        /\ \A r \in 1..Len(L) :
                              (p <= r /\ r <= q) => InEpoch(L[r])
           /\ \A p, q \in 1..Len(L) :
                 (/\ L[p].ev = "init_epoch" /\ L[q].ev = "finalize_epoch"
                  /\ L[p].arg.context = L[q].arg.context)
                     => L[p].arg.epoch = L[q].arg.epoch
           /\ \A p, q \in 1..Len(L) :
                 (/\ p # q /\ L[p].I = L[q].I
                  /\ L[p].ev \in {"init_training", "finalize_training"})
                     => L[q].ev # L[p].ev
           /\ E = 0 => \A k \in 1..Len(L) : ~InEpoch(L[k])

\* C20 witness: a returned call of two epochs that trained two layers, each
\* epoch in two slices.
C20_Witness ==
    /\ BatchCall /\ PretrainReturned("batch")
    /\ call.max_epochs = 2
    /\ Len(call.data) = 3
    /\ BatchSize = 2
    /\ Len(TrainedLayers("batch")) >= 2
    /\ Len(SelectSeq(log["batch"], InEpoch)) = 16

\* The train_sub calls made with context c, in order.
SlicesOf(L, c) ==
    SelectSeq(L, LAMBDA e : e.ev = "train_sub" /\ e.arg.context = c)

\* C21: in every epoch of batched pretraining of n samples with
\* big_batch_size B >= 1 the slices are consecutive, in stream order, cover
\* the n samples, hold between 1 and B samples each and exactly B but for
\* the last, so a finished epoch made ceil(n / B) train_sub calls (none for
\* an empty stream); no buffer ever holds more than B samples.
C21_BatchSlices ==
    (BatchCall /\ BatchSize >= 1) =>
        LET L == log["batch"]
            n == Len(call.data)
        IN /\ \A q \in 1..Len(L) :
                 L[q].ev = "finalize_epoch" =>
                    LET S == SlicesOf(L, L[q].arg.context)
                        B == big_batch_size(L[q].I)
                    IN /\ Len(S) = (n + B - 1) \div B
                       /\ \A k \in 1..Len(S) :
                             /\ S[k].arg.first = (k - 1) * B
                             /\ S[k].arg.last > S[k].arg.first
                             /\ S[k].arg.last - S[k].arg.first <= B
                             /\ k < Len(S) => S[k].arg.last = k * B
                             /\ k = Len(S) => S[k].arg.last = n
           /\ \A k \in 1..Len(L) :
                 L[k].ev = "train_sub" =>
                    /\ Len(L[k].arg.input) <= big_batch_size(L[k].I)
                    /\ L[k].arg.last - L[k].arg.first <= big_batch_size(L[k].I)
           /\ pc \in {"epoch_loop", "batch_loop"} =>
                 Len(activated_input) <= big_batch_size(I)

\* C21 witness: an epoch of three samples in big batches of two has ended
\* for a layer above layer 0: two slices, the last of one sample.
C21_Witness ==
    /\ BatchCall
    /\ BatchSize = 2
    /\ Len(call.data) = 3
    /\ \E q \in 1..Len(log["batch"]) :
          /\ log["batch"][q].ev = "finalize_epoch"
          /\ log["batch"][q].I > 0
          /\ Len(SlicesOf(log["batch"], log["batch"][q].arg.context)) = 2

\* C22: a batched pretrain call terminates for every sample stream, every
\* max_epochs and every big_batch_size, 0 included: every epoch that entered
\* its batch loop reaches finalize_epoch, and the call reaches
\* pretraining_end and returns.
C22_BatchTerminates ==
    /\ (BatchCall /\ pc = "batch_loop") ~> (pc = "epoch_loop")
    /\ (BatchCall /\ Running("batch")) ~> (pc = "returned")

\* The input of layer N > 0 of the running call, as the layers below N now
\* compute it from the samples of the call.
ChainInput(net, N) ==
    [k \in 1..Len(call.data) |->
        activation_probabilities(tuples[net], 0, N, convert_sample(call.data[k]))]

\* What layer N > 0 is trained on in train_with_labels: the last layer's
\* input carries the labels.
LabelledInput(net, N) ==
    IF N = layers - 1
    THEN big_next_a(N - 1, ChainInput(net, N), call.lit, call.labels)
    ELSE ChainInput(net, N)

TrainingCall == call.op \in {"pretrain", "train_with_labels"}

\* During a training call a step changes the parameters of no layer but
\* layer I of the network of the call, and the call never goes back to a
\* layer below I.
OneLayerStep ==
    TrainingCall =>
       /\ \A net \in Nets, N \in 0..(layers - 1) :
             tuples'[net][N] # tuples[net][N] =>
                /\ net = call.net
                /\ N = I
                /\ pc \in {"pretrain_layer", "batch_loop", "train_with_labels"}
       /\ call' = call => I' >= I

\* The input layer I > 0 is trained on is what the layers below I compute
\* from the samples with the parameters they have now, which by OneLayerStep
\* are those their training ended with.
InputFromFinal ==
    /\ (call.op = "pretrain" /\ pc = "pretrain_layer" /\ I > 0) =>
          input = ChainInput(call.net, I)
    /\ (pc = "train_with_labels" /\ I > 0) =>
          input = LabelledInput(call.net, I)
    /\ BatchCall =>
          \A q \in 1..Len(log["batch"]) :
             LET e == log["batch"][q]
             IN (e.ev = "train_sub" /\ e.I > 0) =>
                   \A k \in 1..(e.arg.last - e.arg.first) :
                      k <= Len(e.arg.input) =>
                         e.arg.input[k] = ChainInput("batch", e.I)[e.arg.first + k]

\* C23: in full pretrain, batched pretrain and train_with_labels at most one
\* layer is trained at a time, a layer's parameters change only while it is
\* the layer being trained, and layer I+1's training input is computed from
\* layer I's final parameters, after layer I's training.
C23_OneLayerAtATime == []InputFromFinal /\ [][OneLayerStep]_vars

\* Layer 1 of a three-layer stack has been trained on inputs that layer 0
\* computed with parameters its training changed, and layer 2 is next.
C23_Witness ==
    /\ TrainingCall
    /\ I = 2
    /\ pc \in {"pretrain_layer", "train_with_labels", "batch_loop"}
    /\ tuples[call.net][0] # <<>>
    /\ tuples[call.net][1] # <<>>
    /\ \E k \in 1..Len(call.data) :
          activate_one(0, tuples[call.net][0], convert_sample(call.data[k]))
             # activate_one(0, <<>>, convert_sample(call.data[k]))

\* What sequential execution of the map leaves in the buffer next_a: slot i
\* holds the result of element i, the slots beyond the elements are kept.
Sequential(next_a, result) ==
    [k \in 1..Len(next_a) |-> IF k <= Len(result) THEN result[k] ELSE next_a[k]]

\* A step that runs the parallel map leaves the buffer of sequential
\* execution, and the trainer is handed that buffer, complete.
ParallelMapStep ==
    /\ (call.op = "pretrain" /\ pc = "pretrain_layer" /\ I' = I + 1) =>
          input' = Sequential(prepare_output(I, Len(input)),
                              [k \in 1..Len(input) |->
                                  activate_one(I, tuples'[call.net][I], input[k])])
    /\ (BatchCall /\ BatchSize >= 1 /\ pc = "batch_loop" /\ it' # it /\ I > 0) =>
          LET slice == SubSeq(call.data, it + 1, it')
              L == log'["batch"]
          IN /\ activated_input' =
                   Sequential(activated_input,
                              [k \in 1..Len(slice) |->
                                  activation_probabilities(
                                     tuples["batch"], 0, I, convert_sample(slice[k]))])
             /\ L[Len(L)].ev = "train_sub"
             /\ L[Len(L)].arg.input = activated_input'

\* C24: the parallel map writes element i's result to slot i only, so for
\* every order in which the workers complete the buffer equals that of
\* sequential execution, and training starts on the buffer only after every
\* element has completed.
C24_ParallelMapOrder == [][ParallelMapStep]_vars

\* Layer 1 is given three activations of layer 0, not all equal, that the
\* workers could have completed in six orders.
C24_Witness ==
    /\ call.op = "pretrain"
    /\ call.net = "full"
    /\ pc = "pretrain_layer"
    /\ I = 1
    /\ Len(input) = 3
    /\ input[1] # input[2]
    /\ tuples["full"][0] # <<>>

\* C25: every pretrain_layer event of the watcher carries the number of
\* samples the layer is about to be trained on, in full pretrain, batched
\* pretrain and train_with_labels, for every kind of input iterator.
C25_WatcherSampleCount ==
    TrainingCall =>
       \A q \in 1..Len(log[call.net]) :
          LET e == log[call.net][q]
          IN e.ev = "pretrain_layer" => e.arg = Len(call.data)

\* fine_tune as received by the network of the call.
Received ==
    [dbn |-> call.net, first_last |-> call.data, lfirst_llast |-> call.lit,
     max_epochs |-> call.max_epochs, batch_size |-> call.labels]

\* A step of a fine_tune call: entering it trains nothing; the one step
\* after it is the trainer's, on the arguments received, and the value
\* returned is the trainer's; after the return nothing more happens.
FineTuneStep ==
    /\ (call'.op = "fine_tune" /\ pc' = "fine_tune") =>
          /\ tuples' = tuples
          /\ log' = log
          /\ out'.trace = <<>>
    /\ (call.op = "fine_tune" /\ pc = "fine_tune") =>
          LET t == dbn_trainer_train(tuples[call.net], call.data, call.max_epochs)
          IN /\ pc' = "tuned"
             /\ call' = call
             /\ out'.trace = <<Received>>
             /\ tuples' = [tuples EXCEPT ![call.net] = t]
             /\ out'.result = dbn_trainer_error(t, Received)
             /\ log' = log
    /\ (call.op = "fine_tune" /\ pc = "tuned") =>
          /\ tuples' = tuples
          /\ out' = out

\* C26: fine_tune calls the trainer's train exactly once, with the network,
\* sample range, label range, max_epochs and batch_size it received, and
\* returns the trainer's error unchanged; it never retries and trains
\* nothing itself.
C26_FineTuneForwards == [][FineTuneStep]_vars

\* fine_tune has returned from a call whose max_epochs and batch_size differ.
C26_Witness ==
    /\ pc = "tuned"
    /\ out.op = "fine_tune"
    /\ call.max_epochs # call.labels
    /\ call.data # <<>>
    /\ Len(out.trace) = 1

\* C27: for every sample the trailing output_size(layers-1) entries of
\* full_activation_probabilities(sample) are activation_probabilities(sample),
\* and the segment of each layer N below the last is the result of the
\* bounded chain activation_probabilities<0, N+1>, activate_one giving the
\* same activation with and without its sampling output.
C27_FullAgreesWithChain ==
    out.op = "full_activation_probabilities" =>
        LET t == tuples[call.net]
            v == convert_sample(call.data[1])
            n == rbm_type(layers - 1).output_size
        IN /\ SubSeq(out.vec, Len(out.vec) - n + 1, Len(out.vec))
                 = activation_probabilities(t, 0, layers, v)
           /\ \A N \in 0..(layers - 2) :
                 SubSeq(out.vec, Offset(N) + 1, Offset(N + 1))
                    = activation_probabilities(t, 0, N + 1, v)

\* Two or more trained layers, the last one's activation of the sample is
\* not what it makes of the converted sample itself.
C27_Witness ==
    /\ out.op = "full_activation_probabilities"
    /\ layers >= 2
    /\ tuples[call.net][layers - 1] # <<>>
    /\ LET t == tuples[call.net]
           v == convert_sample(call.data[1])
       IN activation_probabilities(t, 0, layers, v)
             # activate_one(layers - 1, t[layers - 1], v)

====
